---- MODULE Spec2Model ----
(***************************************************************************)
(* PromptLens (src/app.py): a Streamlit page that classifies a raw prompt  *)
(* with keyword heuristics, shows the metrics, and sends a templated       *)
(* meta-prompt to the Groq chat-completion endpoint.                       *)
(*                                                                         *)
(* Text is modelled as a sequence of one-character strings, so that        *)
(* str.lower(), str.split(), str.strip() and the `in` substring test are   *)
(* computed character by character.  Characters outside ASCII that occur   *)
(* in the source's literals are written <U+xxxx>.                          *)
(* Temperatures are held in hundredths (0.3 is 30); a confidence is an     *)
(* exact fraction [num, den].                                              *)
(***************************************************************************)
EXTENDS Integers, Sequences, FiniteSets, TLC

\* -------------------------------------------------------------- bounds

\* Largest number of vocabulary pieces concatenated into a prompt handed
\* to the helper functions.
MaxPieces == 3

\* Largest number of vocabulary pieces in a prompt typed into the page.
MaxTypedPieces == 2

\* ---------------------------------------------------------------- text

UpperChars ==
    <<"A", "B", "C", "D", "E", "F", "G", "H", "I", "J", "K", "L", "M",
      "N", "O", "P", "Q", "R", "S", "T", "U", "V", "W", "X", "Y", "Z">>

LowerChars ==
    <<"a", "b", "c", "d", "e", "f", "g", "h", "i", "j", "k", "l", "m",
      "n", "o", "p", "q", "r", "s", "t", "u", "v", "w", "x", "y", "z">>

\* The characters str.split() and str.strip() treat as whitespace (the
\* ASCII ones; the model's prompts hold no others).
Whitespace ==
    {" ", "\t", "\n", "\r", "\f"}

IsSpace(c) ==
    c \in Whitespace

\* The small letter of each capital.
LowerOf ==
    [c \in {UpperChars[i] : i \in 1..Len(UpperChars)} |->
        LowerChars[CHOOSE i \in 1..Len(UpperChars) : UpperChars[i] = c]]

\* One character of str.lower(): a capital maps to its small letter.
LowerChar(c) ==
    IF c \in DOMAIN LowerOf THEN LowerOf[c] ELSE c

\* str.lower()
Lower(s) ==
    [i \in 1..Len(s) |-> LowerChar(s[i])]

\* `sub in s` for two strings
Contains(sub, s) ==
    \E i \in 0..(Len(s) - Len(sub)) :
        \A j \in 1..Len(sub) : s[i + j] = sub[j]

\* len(s.split()): the number of maximal runs of non-whitespace
WordCount(s) ==
    Cardinality({i \in 1..Len(s) :
                    /\ ~IsSpace(s[i])
                    /\ (i = 1 \/ IsSpace(s[i - 1]))})

\* s.strip(): s without its leading and trailing whitespace
Strip(s) ==
    LET solid == {i \in 1..Len(s) : ~IsSpace(s[i])}
    IN  IF solid = {} THEN <<>>
        ELSE LET first == CHOOSE i \in solid : \A j \in solid : i <= j
                 last  == CHOOSE i \in solid : \A j \in solid : j <= i
             IN  SubSeq(s, first, last)

\* ------------------------------------------------------------ fractions

RECURSIVE GCD(_, _)
GCD(a, b) ==
    IF b = 0 THEN a ELSE GCD(b, a % b)

\* The number n/d, in lowest terms.
Frac(n, d) ==
    [num |-> n \div GCD(n, d), den |-> d \div GCD(n, d)]

FracLess(a, b) ==
    a.num * b.den < b.num * a.den

\* min(a, b): b only when it is strictly smaller
FracMin(a, b) ==
    IF FracLess(b, a) THEN b ELSE a

\* ------------------------------------------------------ static tables

\* PROMPT_PATTERNS, in the dict's order.
PROMPT_PATTERNS ==
    << [name |-> "Zero-Shot",         temperature |-> 30],
       [name |-> "Few-Shot",          temperature |-> 20],
       [name |-> "Chain-of-Thought",  temperature |-> 20],
       [name |-> "Role-Play",         temperature |-> 40],
       [name |-> "Structured Output", temperature |-> 10],
       [name |-> "Meta-Prompting",    temperature |-> 50] >>

\* DOMAIN_PATTERNS, in the dict's order (the order detect_domain iterates).
DOMAIN_PATTERNS ==
    << [name |-> "coding", temperature |-> 10,
        keywords |-> <<<<"c", "o", "d", "e">>,
                       <<"f", "u", "n", "c", "t", "i", "o", "n">>,
                       <<"d", "e", "b", "u", "g">>,
                       <<"p", "y", "t", "h", "o", "n">>,
                       <<"p", "r", "o", "g", "r", "a", "m">>>>],
       [name |-> "data_analysis", temperature |-> 20,
        keywords |-> <<<<"d", "a", "t", "a">>,
                       <<"a", "n", "a", "l", "y", "z", "e">>,
                       <<"s", "t", "a", "t", "i", "s", "t", "i", "c", "s">>,
                       <<"t", "r", "e", "n", "d">>>>],
       [name |-> "creative", temperature |-> 80,
        keywords |-> <<<<"s", "t", "o", "r", "y">>,
                       <<"w", "r", "i", "t", "e">>,
                       <<"c", "r", "e", "a", "t", "i", "v", "e">>,
                       <<"p", "o", "e", "m">>>>],
       [name |-> "research", temperature |-> 30,
        keywords |-> <<<<"r", "e", "s", "e", "a", "r", "c", "h">>,
                       <<"c", "o", "m", "p", "a", "r", "e">>,
                       <<"s", "t", "u", "d", "y">>,
                       <<"a", "n", "a", "l", "y", "s", "i", "s">>>>] >>

\* The temperature .get(..., 0.5) falls back to, in hundredths.
DefaultTemperature == 50

\* The fixed max_tokens of every configuration.
MaxTokens == 3000

\* The divisor of the confidence, scores[best] / 3.
ConfidenceDivisor == 3

\* The word count below which a prompt is too short.
MinWords == 5

\* The score a prompt without issues gets, and the cost of one issue.
FullScore == 10

IssuePenalty == 2

\* The literals of the helper functions.
FormatWord ==
    <<"f", "o", "r", "m", "a", "t">>

StepByStep ==
    <<"s", "t", "e", "p", " ", "b", "y", " ", "s", "t", "e", "p">>

ExampleWord ==
    <<"e", "x", "a", "m", "p", "l", "e">>

TooShortIssue ==
    "Too short <U+2013> add more context"

NoFormatIssue ==
    "No output format specified"

\* ------------------------------------------------------------- helpers

\* sum(1 for k in cfg["keywords"] if k in prompt)
KeywordScore(keywords, prompt) ==
    Cardinality({i \in 1..Len(keywords) : Contains(keywords[i], prompt)})

\* The dict `scores` after the loop: the domains with a nonzero score, in
\* the order the loop inserted them.
DomainScores(prompt) ==
    LET all == [i \in 1..Len(DOMAIN_PATTERNS) |->
                   [domain |-> DOMAIN_PATTERNS[i].name,
                    score  |-> KeywordScore(DOMAIN_PATTERNS[i].keywords, prompt)]]
        Scored(e) == e.score # 0
    IN  SelectSeq(all, Scored)

\* A faulty variant of MaxByScore: a later key also replaces the best one
\* on an equal value, so the last of the tied domains wins.
RECURSIVE MaxByScore_LastWins(_, _, _)
MaxByScore_LastWins(scores, i, best) ==
    IF i > Len(scores) THEN best
    ELSE MaxByScore_LastWins(scores, i + 1,
                    IF scores[i].score >= scores[best].score THEN i ELSE best)

\* max(scores, key=scores.get): a later key replaces the best one so far
\* only when its value is strictly greater.
RECURSIVE MaxByScore(_, _, _)
MaxByScore(scores, i, best) ==
    IF i > Len(scores) THEN best
    ELSE MaxByScore(scores, i + 1,
                    IF scores[i].score > scores[best].score THEN i ELSE best)

\* A faulty variant of detect_domain: the prompt is not lower-cased.
detect_domain_CaseSensitive(prompt) ==
    LET scores == DomainScores(prompt)
    IN  IF scores = <<>>
        THEN [domain |-> "general", confidence |-> Frac(1, 2)]
        ELSE LET best == MaxByScore(scores, 1, 1)
             IN  [domain     |-> scores[best].domain,
                  confidence |-> FracMin(Frac(scores[best].score, ConfidenceDivisor),
                                         Frac(1, 1))]

detect_domain(prompt) ==
    LET scores == DomainScores(Lower(prompt))
    IN  IF scores = <<>>
        THEN [domain |-> "general", confidence |-> Frac(1, 2)]
        ELSE LET best == MaxByScore(scores, 1, 1)
             IN  [domain     |-> scores[best].domain,
                  confidence |-> FracMin(Frac(scores[best].score, ConfidenceDivisor),
                                         Frac(1, 1))]

Max(a, b) ==
    IF a >= b THEN a ELSE b

\* A faulty variant of analyze_prompt_quality: a prompt of exactly MinWords
\* words is too short as well.
analyze_prompt_quality_OffByOne(prompt) ==
    LET words   == WordCount(prompt)
        issues1 == IF words <= MinWords THEN <<TooShortIssue>> ELSE <<>>
        issues  == IF ~Contains(FormatWord, Lower(prompt))
                   THEN Append(issues1, NoFormatIssue) ELSE issues1
    IN  [issues |-> issues,
         score  |-> Max(1, FullScore - Len(issues) * IssuePenalty)]

\* A faulty variant of analyze_prompt_quality: the penalty is not applied
\* per issue.
analyze_prompt_quality_FlatPenalty(prompt) ==
    LET words   == WordCount(prompt)
        issues1 == IF words < MinWords THEN <<TooShortIssue>> ELSE <<>>
        issues  == IF ~Contains(FormatWord, Lower(prompt))
                   THEN Append(issues1, NoFormatIssue) ELSE issues1
    IN  [issues |-> issues,
         score  |-> Max(1, FullScore - Len(issues))]

analyze_prompt_quality(prompt) ==
    LET words   == WordCount(prompt)
        issues1 == IF words < MinWords THEN <<TooShortIssue>> ELSE <<>>
        issues  == IF ~Contains(FormatWord, Lower(prompt))
                   THEN Append(issues1, NoFormatIssue) ELSE issues1
    IN  [issues |-> issues,
         score  |-> Max(1, FullScore - Len(issues) * IssuePenalty)]

\* A faulty variant of recommend_pattern: the two tests are in the other
\* order.
recommend_pattern_ExampleFirst(dom, prompt) ==
    IF Contains(ExampleWord, Lower(prompt)) THEN "Few-Shot"
    ELSE IF Contains(StepByStep, Lower(prompt)) THEN "Chain-of-Thought"
    ELSE "Zero-Shot"

recommend_pattern(dom, prompt) ==
    IF Contains(StepByStep, Lower(prompt)) THEN "Chain-of-Thought"
    ELSE IF Contains(ExampleWord, Lower(prompt)) THEN "Few-Shot"
    ELSE "Zero-Shot"

\* table.get(name, {}).get("temperature", 0.5)
TableTemperature(table, name) ==
    IF \E i \in 1..Len(table) : table[i].name = name
    THEN table[CHOOSE i \in 1..Len(table) : table[i].name = name].temperature
    ELSE DefaultTemperature

\* round(sum / 2, 2) of a sum of two temperatures held in hundredths: the
\* half is a whole number of hundredths or lies exactly between two, and
\* then goes to the even one.
RoundHalf(sum) ==
    LET q == sum \div 2
    IN  IF sum % 2 = 0 THEN q
        ELSE IF q % 2 = 0 THEN q ELSE q + 1

\* A faulty variant of model_config: an unknown pattern falls back to
\* 0.3, the Zero-Shot temperature, instead of 0.5.
model_config_PatternDefault(dom, pat) ==
    LET base  == TableTemperature(DOMAIN_PATTERNS, dom)
        ptemp == IF \E i \in 1..Len(PROMPT_PATTERNS) : PROMPT_PATTERNS[i].name = pat
                 THEN TableTemperature(PROMPT_PATTERNS, pat)
                 ELSE PROMPT_PATTERNS[1].temperature
    IN  [temperature |-> RoundHalf(base + ptemp),
         max_tokens  |-> MaxTokens]

model_config(dom, pat) ==
    LET base  == TableTemperature(DOMAIN_PATTERNS, dom)
        ptemp == TableTemperature(PROMPT_PATTERNS, pat)
    IN  [temperature |-> RoundHalf(base + ptemp),
         max_tokens  |-> MaxTokens]

\* str() of a float that is a whole number of hundredths: 0.1, 0.15, 1.0
FormatFloat(h) ==
    LET ip == h \div 100
        fp == h % 100
    IN  ToString(ip) \o "." \o
        (IF fp % 10 = 0 THEN ToString(fp \div 10)
         ELSE IF fp < 10 THEN "0" \o ToString(fp)
         ELSE ToString(fp))

\* The template's fixed text, cut where the three values are embedded.
TemplateHead ==
    "\nYou are an expert Prompt Engineer.\n\nAnalyze and improve the prompt using this structure:\n\n### <U+1F50D> Understanding\n- Intent\n- Ambiguities\n- Missing details\n\n### <U+26A0><U+FE0F> Issues\n- Problems found\n\n### <U+2728> Optimized Prompt\nProvide a refined, production-ready prompt using **"

TemplateChecklist ==
    "** style.\n\n### <U+2705> Checklist\n- Role\n- Context\n- Task\n- Constraints\n- Output format\n\nDomain: "

TemplateTemperature ==
    "\nRecommended Temperature: "

\* The f-string: a sequence of text fragments.  user_prompt is a parameter
\* the template does not use.
build_analysis_prompt(prompt, dom, pat, config) ==
    << TemplateHead, pat, TemplateChecklist, dom, TemplateTemperature,
       FormatFloat(config.temperature), "\n" >>

\* -------------------------------------------------------------- inputs

\* The vocabulary prompts are put together from: keywords of the four
\* domains (alone, in pairs, capitalised), the literals of the quality and
\* pattern rules, "format" split over two pieces, whitespace, and a word that
\* triggers nothing.
Pieces ==
    << <<"c", "o", "d", "e", " ">>,
       <<"P", "y", "t", "h", "o", "n", " ">>,
       <<"d", "e", "b", "u", "g", " ", "f", "u", "n", "c", "t", "i", "o", "n", " ">>,
       <<"d", "a", "t", "a", " ">>,
       <<"a", "n", "a", "l", "y", "z", "e", " ", "t", "r", "e", "n", "d", " ">>,
       <<"s", "t", "o", "r", "y", " ">>,
       <<"a", "n", "a", "l", "y", "s", "i", "s", "\n">>,
       <<"s", "t", "e", "p", " ", "b", "y", " ", "s", "t", "e", "p", " ">>,
       <<"E", "x", "a", "m", "p", "l", "e", ":", " ">>,
       <<"f", "o", "r">>,
       <<"m", "a", "t", " ">>,
       <<" ", "\t">>,
       <<"h", "i">> >>

RECURSIVE Join(_)
Join(ids) ==
    IF ids = <<>> THEN <<>> ELSE Pieces[ids[1]] \o Join(Tail(ids))

\* Every concatenation of at most n pieces.
PiecePrompts(n) ==
    {Join(ids) : ids \in UNION {[1..k -> 1..Len(Pieces)] : k \in 0..n}}

\* The prompts the documentation works through.
PromptHi ==
    <<"h", "i">>

PromptExplain ==
    <<"E", "x", "p", "l", "a", "i", "n", " ", "a", "n", "o", "m", "a", "l", "y", " ",
      "d", "e", "t", "e", "c", "t", "i", "o", "n", " ", "i", "n", " ",
      "m", "a", "c", "h", "i", "n", "e", " ", "l", "e", "a", "r", "n", "i", "n", "g", " ",
      "u", "s", "i", "n", "g", " ", "a", " ", "c", "l", "e", "a", "r", " ",
      "f", "o", "r", "m", "a", "t">>

PromptGiveExample ==
    <<"G", "i", "v", "e", " ", "m", "e", " ", "a", "n", " ",
      "e", "x", "a", "m", "p", "l", "e", " ", "f", "i", "r", "s", "t">>

PromptSolve ==
    <<"s", "o", "l", "v", "e", " ", "s", "t", "e", "p", " ", "b", "y", " ", "s", "t", "e", "p">>

ExamplePrompts ==
    {PromptHi, PromptExplain, PromptGiveExample, PromptSolve}

\* The prompts the helper functions are applied to.
HelperPrompts ==
    PiecePrompts(MaxPieces) \cup ExamplePrompts

\* The prompts typed into the page.
TypedPrompts ==
    PiecePrompts(MaxTypedPieces) \cup ExamplePrompts

\* Domain and pattern names passed to the helpers: the table's and the
\* fallback's, and names no table holds.
DomainArgs ==
    {DOMAIN_PATTERNS[i].name : i \in 1..Len(DOMAIN_PATTERNS)} \cup {"general", "legal"}

PatternArgs ==
    {PROMPT_PATTERNS[i].name : i \in 1..Len(PROMPT_PATTERNS)} \cup {"Tree-of-Thought"}

\* The sidebar's password field: empty, blank, or a key.
ApiKeys ==
    {"", " ", "gsk_key"}

\* What the provider may answer: a completion with some text, or one with
\* no choice in it.
Outputs ==
    {"", "Refined prompt"}

Responses ==
    {[choices |-> <<>>]} \cup
    {[choices |-> <<[message |-> [content |-> o]]>>] : o \in Outputs}

\* str(e) of what the client may raise.
ExceptionTexts ==
    {"Connection error.", "Error code: 401"}

IndexErrorText ==
    "list index out of range"

\* ---------------------------------------------------------------- state

VARIABLES
    pc,              \* where the script run stands
    api_key,         \* the sidebar's text input
    user_prompt,     \* the text area
    screen,          \* the elements the run has put on the page, in order
    ran,             \* the helper functions the run has called, in order
    domain, confidence, quality, pattern, cfg,   \* the run's analysis
    analysis_prompt, \* the rendered template
    calls,           \* the chat-completion requests the run has issued
    response,        \* what the call returned
    exc,             \* <<str(e)>> once an exception was raised in the try block
    ret              \* the last direct call of a helper and what it returned

vars ==
    <<pc, api_key, user_prompt, screen, ran, domain, confidence, quality,
      pattern, cfg, analysis_prompt, calls, response, exc, ret>>

\* The only entry of the model selectbox.
model_choice ==
    "llama-3.1-8b-instant"

\* A page element: the Streamlit call that made it and its text fragments.
Element(kind, body) ==
    [kind |-> kind, body |-> body]

\* Names not yet bound hold these placeholders; `ran` and `pc` tell which
\* are bound.
NoAnalysis ==
    /\ ran = <<>>
    /\ domain = ""
    /\ confidence = [num |-> 0, den |-> 1]
    /\ quality = [issues |-> <<>>, score |-> 0]
    /\ pattern = ""
    /\ cfg = [temperature |-> 0, max_tokens |-> 0]

NoRequest ==
    /\ analysis_prompt = <<>>
    /\ calls = <<>>
    /\ response = [choices |-> <<>>]
    /\ exc = <<>>

NoCall ==
    [fn |-> "none"]

\* The page before the button is pressed.
Init ==
    /\ pc = "idle"
    /\ api_key = ""
    /\ user_prompt = <<>>
    /\ screen = <<>>
    /\ NoAnalysis
    /\ NoRequest
    /\ ret = NoCall

\* ------------------------------------------------------ the script run

SystemMessage ==
    "You are an expert Prompt Engineer."

PromptSeparator ==
    "\n\nUSER PROMPT:\n"

\* A faulty variant of ChatRequest: the raw prompt is not appended to the
\* rendered template.
ChatRequest_TemplateOnly(model, rendered, raw, config) ==
    [model       |-> model,
     messages    |-> << [role |-> "system", content |-> <<SystemMessage>>],
                        [role |-> "user", content |-> rendered] >>,
     temperature |-> config.temperature,
     max_tokens  |-> config.max_tokens]

\* The keyword arguments of client.chat.completions.create(...).
ChatRequest(model, rendered, raw, config) ==
    [model       |-> model,
     messages    |-> << [role |-> "system", content |-> <<SystemMessage>>],
                        [role |-> "user",
                         content |-> rendered \o <<PromptSeparator>> \o raw] >>,
     temperature |-> config.temperature,
     max_tokens  |-> config.max_tokens]

MissingKeyError ==
    Element("error", <<"Please enter your Groq API key.">>)

EmptyPromptWarning ==
    Element("warning", <<"Please enter a prompt.">>)

\* The three st.metric columns.
Metrics(dom, pat, report) ==
    << Element("metric", <<"Domain", dom>>),
       Element("metric", <<"Pattern", pat>>),
       Element("metric", <<"Quality", ToString(report.score) \o "/10">>) >>

\* The warning and one bullet per issue, when there is an issue.
IssueList(report) ==
    IF report.issues = <<>> THEN <<>>
    ELSE <<Element("warning", <<"<U+26A0><U+FE0F> Issues detected:">>)>> \o
         [i \in 1..Len(report.issues) |-> Element("write", <<"- ", report.issues[i]>>)]

\* What the try block puts on the page when nothing raised.
ResultElements(output, model, pat, dom) ==
    << Element("markdown", <<"---">>),
       Element("markdown", <<"### <U+1F3AF> AI Analysis & Optimized Prompt">>),
       Element("markdown", <<output>>),
       Element("markdown", <<"<div class=\"success-box\"> <U+2714> Completed using <strong>",
                             model, "</strong><br> Pattern: <strong>", pat,
                             "</strong> | Domain: <strong>", dom, "</strong> </div>">>) >>

ProviderError(text) ==
    Element("error", <<"Groq API Error: ", text>>)

\* A faulty variant of InputCheck: the prompt is not stripped.
InputCheck_NoStrip(k, p) ==
    IF k = "" THEN "no_key"
    ELSE IF p = <<>> THEN "no_prompt"
    ELSE "ok"

\* The two input checks at the head of the handler.
InputCheck(k, p) ==
    IF k = "" THEN "no_key"
    ELSE IF Strip(p) = <<>> THEN "no_prompt"
    ELSE "ok"

\* The button is pressed with some key in the sidebar and some prompt in the
\* text area: the script runs, and the input checks pass or end the run.
RefineBtn ==
    /\ pc = "idle"
    /\ \E k \in ApiKeys, p \in TypedPrompts :
          /\ api_key' = k
          /\ user_prompt' = p
          /\ IF InputCheck(k, p) = "no_key"
             THEN /\ screen' = <<MissingKeyError>>
                  /\ pc' = "done"
             ELSE IF InputCheck(k, p) = "no_prompt"
             THEN /\ screen' = <<EmptyPromptWarning>>
                  /\ pc' = "done"
             ELSE /\ screen' = <<>>
                  /\ pc' = "analyzing"
    /\ UNCHANGED <<ran, domain, confidence, quality, pattern, cfg,
                   analysis_prompt, calls, response, exc, ret>>

\* The first spinner block: the four helpers, then the metrics and issues.
Analyze ==
    /\ pc = "analyzing"
    /\ LET d == detect_domain(user_prompt)
           q == analyze_prompt_quality(user_prompt)
           p == recommend_pattern(d.domain, user_prompt)
           c == model_config(d.domain, p)
       IN  /\ domain' = d.domain
           /\ confidence' = d.confidence
           /\ quality' = q
           /\ pattern' = p
           /\ cfg' = c
           /\ screen' = screen \o Metrics(d.domain, p, q) \o IssueList(q)
    /\ ran' = <<"detect_domain", "analyze_prompt_quality",
                "recommend_pattern", "model_config">>
    /\ pc' = "refining"
    /\ UNCHANGED <<api_key, user_prompt, analysis_prompt, calls, response, exc, ret>>

\* Groq(api_key=api_key) returns a client.
ClientBuilt ==
    /\ pc = "refining"
    /\ pc' = "client"
    /\ UNCHANGED <<api_key, user_prompt, screen, ran, domain, confidence, quality,
                   pattern, cfg, analysis_prompt, calls, response, exc, ret>>

\* Groq(api_key=api_key) raises.
ClientRaises(e) ==
    /\ pc = "refining"
    /\ exc' = <<e>>
    /\ pc' = "except"
    /\ UNCHANGED <<api_key, user_prompt, screen, ran, domain, confidence, quality,
                   pattern, cfg, analysis_prompt, calls, response, ret>>

RenderPrompt ==
    /\ pc = "client"
    /\ analysis_prompt' = build_analysis_prompt(user_prompt, domain, pattern, cfg)
    /\ pc' = "rendered"
    /\ UNCHANGED <<api_key, user_prompt, screen, ran, domain, confidence, quality,
                   pattern, cfg, calls, response, exc, ret>>

\* client.chat.completions.create(...) sends the request and blocks.
Create ==
    /\ pc = "rendered"
    /\ calls' = Append(calls, ChatRequest(model_choice, analysis_prompt,
                                          user_prompt, cfg))
    /\ pc' = "calling"
    /\ UNCHANGED <<api_key, user_prompt, screen, ran, domain, confidence, quality,
                   pattern, cfg, analysis_prompt, response, exc, ret>>

\* The call returns a completion.
CallReturns(r) ==
    /\ pc = "calling"
    /\ response' = r
    /\ pc' = "returned"
    /\ UNCHANGED <<api_key, user_prompt, screen, ran, domain, confidence, quality,
                   pattern, cfg, analysis_prompt, calls, exc, ret>>

\* A faulty variant of CallRaises: the failed call is tried again.
CallRaises_Retry(e) ==
    /\ pc = "calling"
    /\ pc' = "rendered"
    /\ UNCHANGED <<api_key, user_prompt, screen, ran, domain, confidence, quality,
                   pattern, cfg, analysis_prompt, calls, response, exc, ret>>

\* The call raises (network, authentication, quota).
CallRaises(e) ==
    /\ pc = "calling"
    /\ exc' = <<e>>
    /\ pc' = "except"
    /\ UNCHANGED <<api_key, user_prompt, screen, ran, domain, confidence, quality,
                   pattern, cfg, analysis_prompt, calls, response, ret>>

\* A faulty variant of ShowOutput: the rule and the heading are put on the
\* page before the completion is read.
ShowOutput_HeadingFirst ==
    /\ pc = "returned"
    /\ IF response.choices = <<>>
       THEN /\ exc' = <<IndexErrorText>>
            /\ pc' = "except"
            /\ screen' = screen \o SubSeq(ResultElements("", model_choice, pattern, domain), 1, 2)
       ELSE /\ screen' = screen \o ResultElements(response.choices[1].message.content,
                                                  model_choice, pattern, domain)
            /\ pc' = "done"
            /\ UNCHANGED exc
    /\ UNCHANGED <<api_key, user_prompt, ran, domain, confidence, quality,
                   pattern, cfg, analysis_prompt, calls, response, ret>>

\* response.choices[0].message.content and the four st.markdown calls; a
\* completion without a choice raises IndexError before anything is shown.
ShowOutput ==
    /\ pc = "returned"
    /\ IF response.choices = <<>>
       THEN /\ exc' = <<IndexErrorText>>
            /\ pc' = "except"
            /\ UNCHANGED screen
       ELSE /\ screen' = screen \o ResultElements(response.choices[1].message.content,
                                                  model_choice, pattern, domain)
            /\ pc' = "done"
            /\ UNCHANGED exc
    /\ UNCHANGED <<api_key, user_prompt, ran, domain, confidence, quality,
                   pattern, cfg, analysis_prompt, calls, response, ret>>

\* except Exception as e: st.error(...)
Except ==
    /\ pc = "except"
    /\ screen' = Append(screen, ProviderError(exc[1]))
    /\ pc' = "done"
    /\ UNCHANGED <<api_key, user_prompt, ran, domain, confidence, quality,
                   pattern, cfg, analysis_prompt, calls, response, exc, ret>>

\* The next script run without the button: the page is built afresh and
\* nothing of the finished run is kept.
Rerun ==
    /\ pc = "done"
    /\ pc' = "idle"
    /\ api_key' = ""
    /\ user_prompt' = <<>>
    /\ screen' = <<>>
    /\ ran' = <<>>
    /\ domain' = ""
    /\ confidence' = [num |-> 0, den |-> 1]
    /\ quality' = [issues |-> <<>>, score |-> 0]
    /\ pattern' = ""
    /\ cfg' = [temperature |-> 0, max_tokens |-> 0]
    /\ analysis_prompt' = <<>>
    /\ calls' = <<>>
    /\ response' = [choices |-> <<>>]
    /\ exc' = <<>>
    /\ UNCHANGED ret

Next ==
    \/ RefineBtn
    \/ Analyze
    \/ ClientBuilt
    \/ \E e \in ExceptionTexts : ClientRaises(e)
    \/ RenderPrompt
    \/ Create
    \/ \E r \in Responses : CallReturns(r)
    \/ \E e \in ExceptionTexts : CallRaises(e)
    \/ ShowOutput
    \/ Except
    \/ Rerun

Spec ==
    Init /\ [][Next]_vars

\* ------------------------------------------- the helpers, called directly

CallDetectDomain ==
    /\ ret = NoCall
    /\ \E p \in HelperPrompts :
          ret' = [fn |-> "detect_domain", prompt |-> p, value |-> detect_domain(p)]
    /\ UNCHANGED <<pc, api_key, user_prompt, screen, ran, domain, confidence, quality,
                   pattern, cfg, analysis_prompt, calls, response, exc>>

CallAnalyzePromptQuality ==
    /\ ret = NoCall
    /\ \E p \in HelperPrompts :
          ret' = [fn |-> "analyze_prompt_quality", prompt |-> p,
                  value |-> analyze_prompt_quality(p)]
    /\ UNCHANGED <<pc, api_key, user_prompt, screen, ran, domain, confidence, quality,
                   pattern, cfg, analysis_prompt, calls, response, exc>>

CallRecommendPattern ==
    /\ ret = NoCall
    /\ \E d \in DomainArgs, p \in HelperPrompts :
          ret' = [fn |-> "recommend_pattern", dom |-> d, prompt |-> p,
                  value |-> recommend_pattern(d, p)]
    /\ UNCHANGED <<pc, api_key, user_prompt, screen, ran, domain, confidence, quality,
                   pattern, cfg, analysis_prompt, calls, response, exc>>

CallModelConfig ==
    /\ ret = NoCall
    /\ \E d \in DomainArgs, pat \in PatternArgs :
          ret' = [fn |-> "model_config", dom |-> d, pat |-> pat,
                  value |-> model_config(d, pat)]
    /\ UNCHANGED <<pc, api_key, user_prompt, screen, ran, domain, confidence, quality,
                   pattern, cfg, analysis_prompt, calls, response, exc>>

CallBuildAnalysisPrompt ==
    /\ ret = NoCall
    /\ \E p \in ExamplePrompts, d \in DomainArgs, pat \in PatternArgs :
          ret' = [fn |-> "build_analysis_prompt", prompt |-> p, dom |-> d, pat |-> pat,
                  config |-> model_config(d, pat),
                  value |-> build_analysis_prompt(p, d, pat, model_config(d, pat))]
    /\ UNCHANGED <<pc, api_key, user_prompt, screen, ran, domain, confidence, quality,
                   pattern, cfg, analysis_prompt, calls, response, exc>>

NextHelpers ==
    \/ CallDetectDomain
    \/ CallAnalyzePromptQuality
    \/ CallRecommendPattern
    \/ CallModelConfig
    \/ CallBuildAnalysisPrompt

SpecHelpers ==
    Init /\ [][NextHelpers]_vars

\* ------------------------------------------------ properties of the run

\* The prompt holds a character that is not whitespace.
HasSolidChar(p) ==
    \E i \in 1..Len(p) : p[i] \notin {" ", "\t", "\n", "\r", "\f"}

Shown(kind) ==
    \E i \in 1..Len(screen) : screen[i].kind = kind

\* C1: a chat-completion call is attempted only with a non-empty API key and
\* a prompt holding a non-whitespace character.  A run with an empty key
\* ends in the credential-missing error, a run with a key and a blank prompt
\* in the empty-prompt warning; in both no analysis stage has run and no
\* call was made.
C1_InputsGateTheCall ==
    /\ (pc \in {"analyzing", "refining", "client", "rendered", "calling",
                "returned", "except"} \/ ran # <<>> \/ calls # <<>>)
          => (api_key # "" /\ HasSolidChar(user_prompt))
    /\ (pc = "done" /\ api_key = "")
          => /\ screen = <<[kind |-> "error",
                            body |-> <<"Please enter your Groq API key.">>]>>
             /\ ran = <<>>
             /\ calls = <<>>
    /\ (pc = "done" /\ api_key # "" /\ ~HasSolidChar(user_prompt))
          => /\ screen = <<[kind |-> "warning",
                            body |-> <<"Please enter a prompt.">>]>>
             /\ ran = <<>>
             /\ calls = <<>>

\* A run with an empty key and a non-empty prompt has ended in the error.
C1_Witness ==
    /\ pc = "done"
    /\ api_key = ""
    /\ user_prompt = PromptExplain
    /\ screen = <<MissingKeyError>>
    /\ calls = <<>>

\* C2: a run that passed the input checks issues at most one call, and ends
\* in exactly one of result and error: when something raised, the error
\* message holding the exception's text is shown and no model output;
\* when nothing raised, the returned text is shown and no error.
C2_OneCallOneOutcome ==
    /\ Len(calls) <= 1
    /\ (pc = "done" /\ ran # <<>>)
          => /\ Shown("markdown") # Shown("error")
             /\ exc # <<>>
                   => /\ screen[Len(screen)].kind = "error"
                      /\ \E j \in 1..Len(screen[Len(screen)].body) :
                             screen[Len(screen)].body[j] = exc[1]
                      /\ ~Shown("markdown")
             /\ exc = <<>>
                   => /\ Len(calls) = 1
                      /\ \E i \in 1..Len(screen) :
                             screen[i] = [kind |-> "markdown",
                                          body |-> <<response.choices[1].message.content>>]
                      /\ ~Shown("error")

\* A run whose call raised has ended in the error.
C2_Witness ==
    /\ pc = "done"
    /\ Len(calls) = 1
    /\ exc = <<"Connection error.">>
    /\ Shown("error")

\* A run has ended in one of the three error kinds.
EndedInError ==
    /\ pc = "done"
    /\ (api_key = "" \/ ~HasSolidChar(user_prompt) \/ exc # <<>>)

\* C3 as stated: a run that ends in one of the three error kinds shows
\* nothing but the error or warning message itself.
C3_NothingButTheMessage ==
    EndedInError => (Len(screen) = 1 /\ screen[1].kind \in {"error", "warning"})

\* C3 as the code has it: a run that fails an input check shows nothing but
\* its message; a run whose provider call (or client, or reading of the
\* completion) raised shows no model output and no completion box, but
\* keeps the three metrics and the issue list the analysis block displayed
\* before the call, and the error message comes last.
C3_ErrorAfterMetrics ==
    /\ (EndedInError /\ ran = <<>>)
          => (Len(screen) = 1 /\ screen[1].kind \in {"error", "warning"})
    /\ (EndedInError /\ ran # <<>>)
          => /\ ~Shown("markdown")
             /\ Len(screen) = 4 + (IF quality.issues = <<>> THEN 0
                                   ELSE 1 + Len(quality.issues))
             /\ screen[1] = [kind |-> "metric", body |-> <<"Domain", domain>>]
             /\ screen[2] = [kind |-> "metric", body |-> <<"Pattern", pattern>>]
             /\ screen[3].kind = "metric" /\ screen[3].body[1] = "Quality"
             /\ \A i \in 4..(Len(screen) - 1) : screen[i].kind \in {"warning", "write"}
             /\ screen[Len(screen)] = [kind |-> "error",
                                       body |-> <<"Groq API Error: ", exc[1]>>]

\* A failed call after an analysis that found both issues: the metrics and
\* the issue list are on the page with the error.
C3_Witness ==
    /\ EndedInError
    /\ Len(calls) = 1
    /\ Len(quality.issues) = 2
    /\ Len(screen) = 7

\* C10: every request sent carries the run's own analysis: temperature
\* model_config(d, p).temperature and max_tokens 3000, for d the domain
\* detect_domain gives the prompt and p = recommend_pattern(d, prompt); two
\* messages, system then user; and the user message is the template with
\* p, d and the temperature embedded, then the raw prompt unchanged.
C10_RequestCarriesAnalysis ==
    \A i \in 1..Len(calls) :
        LET r    == calls[i]
            d    == detect_domain(user_prompt).domain
            p    == recommend_pattern(d, user_prompt)
            t    == model_config(d, p).temperature
            body == r.messages[2].content
            n    == Len(body) - Len(user_prompt)
        IN  /\ r.temperature = t
            /\ r.max_tokens = 3000
            /\ r.model = "llama-3.1-8b-instant"
            /\ Len(r.messages) = 2
            /\ r.messages[1].role = "system"
            /\ r.messages[2].role = "user"
            /\ n = 8
            /\ SubSeq(body, 1, 7) = analysis_prompt
            /\ body[1] = TemplateHead
            /\ body[2] = p
            /\ body[3] = TemplateChecklist
            /\ body[4] = d
            /\ body[5] = TemplateTemperature
            /\ body[6] = FormatFloat(t)
            /\ body[8] = "\n\nUSER PROMPT:\n"
            /\ SubSeq(body, n + 1, Len(body)) = user_prompt

\* A request for a coding prompt asking for steps: temperature 0.15.
C10_Witness ==
    /\ pc = "calling"
    /\ Len(calls) = 1
    /\ domain = "coding"
    /\ pattern = "Chain-of-Thought"
    /\ calls[1].temperature = 15
    /\ calls[1].messages[2].content[6] = "0.15"

\* -------------------------------------------- properties of the helpers

\* The four domains in the table's order.
TableOrder ==
    <<"coding", "data_analysis", "creative", "research">>

\* The keywords of the i-th domain, as a set.
KeywordSet(i) ==
    {DOMAIN_PATTERNS[i].keywords[j] : j \in 1..Len(DOMAIN_PATTERNS[i].keywords)}

\* How many distinct keywords of each domain occur in the lower-cased
\* prompt.
Present(prompt) ==
    LET low == Lower(prompt)
    IN  [i \in 1..Len(DOMAIN_PATTERNS) |->
            Cardinality({k \in KeywordSet(i) : Contains(k, low)})]

\* C4: a prompt in which no keyword of any domain occurs gives
\* ("general", 0.5); a prompt in which some keyword occurs gives one of the
\* four table domains, never "general".
C4_GeneralIffNoKeyword ==
    ret.fn = "detect_domain"
       => LET count == Present(ret.prompt)
          IN  IF \A i \in DOMAIN count : count[i] = 0
              THEN /\ ret.value.domain = "general"
                   /\ ret.value.confidence = [num |-> 1, den |-> 2]
              ELSE /\ ret.value.domain \in {"coding", "data_analysis", "creative", "research"}
                   /\ ret.value.domain # "general"

\* A non-empty prompt without a keyword was classified general.
C4_Witness ==
    /\ ret.fn = "detect_domain"
    /\ ret.prompt = PromptHi \o <<" ", "\t">> \o PromptHi
    /\ ret.value.domain = "general"

\* C5: with a keyword present, the domain returned has the highest count of
\* distinct keywords present, the first such domain in the order coding,
\* data_analysis, creative, research; the confidence is min(k/3, 1.0) for
\* its count k, and lies in [0,1].
C5_FirstHighestCount ==
    ret.fn = "detect_domain"
       => LET count == Present(ret.prompt)
              c     == ret.value.confidence
          IN  (\E i \in DOMAIN count : count[i] > 0)
                 => \E i \in 1..Len(TableOrder) :
                       /\ DOMAIN_PATTERNS[i].name = TableOrder[i]
                       /\ ret.value.domain = TableOrder[i]
                       /\ \A j \in 1..Len(TableOrder) :
                              /\ count[j] <= count[i]
                              /\ (j < i => count[j] < count[i])
                       /\ c.den > 0
                       /\ IF count[i] >= 3 THEN c.num = c.den
                          ELSE c.num * 3 = count[i] * c.den
                       /\ 0 <= c.num /\ c.num <= c.den

\* Two domains tied at two keywords each: the earlier one was returned.
C5_Witness ==
    /\ ret.fn = "detect_domain"
    /\ Present(ret.prompt)[1] = 2
    /\ Present(ret.prompt)[2] = 2
    /\ ret.value.domain = "coding"
    /\ ret.value.confidence = [num |-> 2, den |-> 3]

HasIssue(report, text) ==
    \E i \in 1..Len(report.issues) : report.issues[i] = text

\* C6 as stated: the issue strings end in a full stop.
C6_IssuesWithFullStop ==
    ret.fn = "analyze_prompt_quality"
       => /\ HasIssue(ret.value, "Too short <U+2013> add more context.")
                <=> WordCount(ret.prompt) < 5
          /\ HasIssue(ret.value, "No output format specified.")
                <=> ~Contains(FormatWord, Lower(ret.prompt))

\* C6 as the code has it: the issue list holds "Too short <U+2013> add more
\* context" (no full stop) exactly when the prompt has fewer than 5
\* whitespace-delimited words, and "No output format specified" (no full
\* stop) exactly when the lower-cased prompt does not contain "format"; the
\* too-short issue comes first, and there is no other issue.
C6_IssuesInOrder ==
    ret.fn = "analyze_prompt_quality"
       => LET short    == WordCount(ret.prompt) < 5
              noformat == ~Contains(<<"f", "o", "r", "m", "a", "t">>, Lower(ret.prompt))
          IN  ret.value.issues =
                 (IF short THEN <<"Too short <U+2013> add more context">> ELSE <<>>) \o
                 (IF noformat THEN <<"No output format specified">> ELSE <<>>)

\* "hi" has both issues.
C6_Witness ==
    /\ ret.fn = "analyze_prompt_quality"
    /\ ret.prompt = PromptHi
    /\ Len(ret.value.issues) = 2

\* C7: the score is max(1, 10 - 2 * issues), an integer in [1,10]; with at
\* most two issues it is 10, 8 or 6 and the floor of 1 never takes effect;
\* no issue scores 10 and "hi" scores 6.
C7_ScoreFromIssues ==
    ret.fn = "analyze_prompt_quality"
       => LET n == Len(ret.value.issues)
          IN  /\ ret.value.score = (IF 10 - 2 * n >= 1 THEN 10 - 2 * n ELSE 1)
              /\ ret.value.score \in 1..10
              /\ n <= 2
              /\ ret.value.score = 10 - 2 * n
              /\ ret.value.score \in {10, 8, 6}
              /\ (ret.prompt = PromptHi => ret.value.score = 6)
              /\ (ret.prompt = PromptExplain => (n = 0 /\ ret.value.score = 10))

\* The documented prompt without issues scored 10.
C7_Witness ==
    /\ ret.fn = "analyze_prompt_quality"
    /\ ret.prompt = PromptExplain
    /\ ret.value = [issues |-> <<>>, score |-> 10]

\* C8: whatever the domain argument, the pattern is "Chain-of-Thought" when
\* the lower-cased prompt contains "step by step", else "Few-Shot" when it
\* contains "example", else "Zero-Shot"; the other three patterns are never
\* returned.
C8_PatternFromPrompt ==
    ret.fn = "recommend_pattern"
       => /\ ret.value =
                (IF Contains(StepByStep, Lower(ret.prompt)) THEN "Chain-of-Thought"
                 ELSE IF Contains(ExampleWord, Lower(ret.prompt)) THEN "Few-Shot"
                 ELSE "Zero-Shot")
          /\ ret.value \notin {"Role-Play", "Structured Output", "Meta-Prompting"}
          /\ (ret.prompt = PromptGiveExample => ret.value = "Few-Shot")
          /\ (ret.prompt = PromptSolve => ret.value = "Chain-of-Thought")

\* A prompt with both triggers, and a domain that is not the prompt's own.
C8_Witness ==
    /\ ret.fn = "recommend_pattern"
    /\ ret.dom = "legal"
    /\ Contains(StepByStep, Lower(ret.prompt))
    /\ Contains(ExampleWord, Lower(ret.prompt))
    /\ ret.value = "Chain-of-Thought"

\* The temperature the table holds for the name, or 0.5.
TemperatureOrHalf(table, name) ==
    LET found == {table[i].temperature : i \in {j \in 1..Len(table) : table[j].name = name}}
    IN  IF found = {} THEN 50 ELSE CHOOSE t \in found : TRUE

\* C9: max_tokens is 3000 and the temperature is the average of the
\* domain's and the pattern's table temperatures (0.5 for a name the table
\* does not hold) rounded to two decimals; it lies in [0,1]; coding with
\* Structured Output gives 0.10.
C9_AveragedTemperature ==
    ret.fn = "model_config"
       => LET sum == TemperatureOrHalf(DOMAIN_PATTERNS, ret.dom)
                     + TemperatureOrHalf(PROMPT_PATTERNS, ret.pat)
              t   == ret.value.temperature
          IN  /\ ret.value.max_tokens = 3000
              /\ 2 * t - sum \in {-1, 0, 1}
              /\ t \in 0..100
              /\ ((ret.dom = "coding" /\ ret.pat = "Structured Output") => t = 10)
              /\ ((ret.dom = "general" /\ ret.pat = "Zero-Shot") => t = 40)

\* Two names no table holds: 0.5.
C9_Witness ==
    /\ ret.fn = "model_config"
    /\ ret.dom = "legal"
    /\ ret.pat = "Tree-of-Thought"
    /\ ret.value = [temperature |-> 50, max_tokens |-> 3000]

====
